---- MODULE Spec2Model ----
(***************************************************************************)
(* Model of src/src/main.rs: a forward-chaining engine over "relations"    *)
(* (premise set `from`, growing conclusion set `to`).  main loads the      *)
(* relations from stdin, runs the saturation query can_fly with all=true   *)
(* on a clone, then (if needed) with all=false on the loaded collection,   *)
(* and prints one verdict.                                                 *)
(*                                                                         *)
(* A line of input is modelled as the sequence of its whitespace-separated *)
(* tokens (what split_whitespace yields); a label is a string.             *)
(***************************************************************************)
EXTENDS Integers, Sequences, FiniteSets, TLC

\* Largest statement count drawn for the input.
MaxRel == 3

(***************************************************************************)
(* Input lines the model draws from.                                       *)
(***************************************************************************)
\* Lines the parser accepts: one label a side; label groups with the joiners
\* "with", "and", "that can"; the three connectors; the empty line.
GoodLines ==
    { <<"PIGS", "have", "WINGS">>,
      <<"WINGS", "have", "FLY">>,
      <<"FLY", "have", "PIGS">>,
      <<"CATS", "have", "CLAWS">>,
      <<"things", "with", "WINGS", "can", "FLY">>,
      <<"things", "with", "HOOVES", "are", "PIGS", "with", "FLY">>,
      <<"PIGS", "are", "things", "and", "WINGS">>,
      <<"PIGS", "that", "can", "FLY", "have", "CLAWS", "that", "can", "FLY">>,
      <<>> }

\* Lines the parser rejects.
BadLines ==
    { <<"PIGS", "and", "WINGS">>,
      <<"PIGS", "that", "are", "FLY">>,
      <<"PIGS", "have", "WINGS", "have", "FLY">> }

Lines == GoodLines \cup BadLines

Scenario1 == << <<"PIGS", "have", "WINGS">>, <<"things", "with", "WINGS", "can", "FLY">> >>

Inputs == UNION { [1..n -> Lines] : n \in 1..MaxRel }

VARIABLES
    input,      \* stdin: [count, lines]
    pc,         \* position in main / can_fly
    relations,  \* main's `relations` (as loaded)
    rels,       \* can_fly's `relations` parameter (the Vec it mutates)
    all,        \* can_fly's `all` parameter
    changed,    \* can_fly's `changed`
    pending,    \* ordered pairs (a, b) the current double loop has yet to visit
    calls,      \* Relation methods invoked by the current double loop
    sweeps,     \* iterations of `while changed` started by the current query
    sweepStart, \* rels when the current iteration of `while changed` started
    results,    \* values returned by the can_fly calls made so far
    output      \* lines printed to stdout

vars == <<input, pc, relations, rels, all, changed, pending, calls, sweeps,
          sweepStart, results, output>>

(***************************************************************************)
(* Relation                                                                *)
(***************************************************************************)
Relation(from, to) == [from |-> from, to |-> to]

\* Faulty cascades: one shared label is enough.
CascadesSome(self, other) ==
    Cardinality(self.to \cap other.from) > 0

\* self.to.intersection(other.from).count() == other.from.len()
Cascades(self, other) ==
    Cardinality(self.to \cap other.from) = Cardinality(other.from)

\* Faulty matches: the roles of self and other are exchanged.
MatchesSwapped(self, other) ==
    Cardinality(self.from \cap other.from) = Cardinality(other.from)

\* self.from.intersection(other.from).count() == self.from.len()
Matches(self, other) ==
    Cardinality(self.from \cap other.from) = Cardinality(self.from)

\* Faulty extend: overwrites self.to with other.to.
ExtendOverwrite(self, other) ==
    [rel  |-> [self EXCEPT !.to = other.to],
     grew |-> Cardinality(self.to) < Cardinality(other.to)]

\* Faulty extend: reports a change whenever the size did not shrink.
ExtendAlwaysGrew(self, other) ==
    [rel  |-> [self EXCEPT !.to = self.to \cup other.to],
     grew |-> Cardinality(self.to) <= Cardinality(self.to \cup other.to)]

\* Faulty extend: takes other's premise labels along.
ExtendWithFrom(self, other) ==
    [rel  |-> [self EXCEPT !.to = self.to \cup other.to \cup other.from],
     grew |-> Cardinality(self.to) < Cardinality(self.to \cup other.to \cup other.from)]

\* extend: self after the call, and the returned bool.
Extend(self, other) ==
    [rel  |-> [self EXCEPT !.to = self.to \cup other.to],
     grew |-> Cardinality(self.to) < Cardinality(self.to \cup other.to)]

\* Faulty can_fly: the looser branch is not gated by `all`.
RelCanFlyUngated(self, flag) ==
    ("PIGS" \in self.from /\ "FLY" \in self.to)
        \/ ("PIGS" \in self.to /\ "FLY" \in self.to)

\* Relation::can_fly
RelCanFly(self, flag) ==
    ("PIGS" \in self.from /\ "FLY" \in self.to)
        \/ (~flag /\ "PIGS" \in self.to /\ "FLY" \in self.to)

(***************************************************************************)
(* Loading                                                                 *)
(***************************************************************************)
Panic == [ok |-> FALSE, set |-> {}, pos |-> 0]

RECURSIVE ParseFromAt(_, _, _)
\* The `while let` loop of parse_from with the iterator at token k.
ParseFromAt(line, k, from) ==
    IF k > Len(line) THEN [ok |-> TRUE, set |-> from, pos |-> k]
    ELSE LET from2 == from \cup {line[k]} IN
         IF k + 1 > Len(line) THEN Panic
         ELSE IF line[k + 1] \in {"with", "and"} THEN ParseFromAt(line, k + 2, from2)
         ELSE IF line[k + 1] = "that"
              THEN IF k + 2 <= Len(line) /\ line[k + 2] = "can"
                   THEN ParseFromAt(line, k + 3, from2)
                   ELSE Panic
         ELSE IF line[k + 1] \in {"are", "have", "can"}
              THEN [ok |-> TRUE, set |-> from2, pos |-> k + 2]
         ELSE Panic

\* parse_from: the premise set and where it leaves the iterator.
ParseFrom(line) == ParseFromAt(line, 1, {})

RECURSIVE ParseToAt(_, _, _)
\* The `while let` loop of parse_to with the iterator at token k.
ParseToAt(line, k, to) ==
    IF k > Len(line) THEN [ok |-> TRUE, set |-> to, pos |-> k]
    ELSE LET to2 == to \cup {line[k]} IN
         IF k + 1 > Len(line) THEN [ok |-> TRUE, set |-> to2, pos |-> k + 1]
         ELSE IF line[k + 1] \in {"with", "and"} THEN ParseToAt(line, k + 2, to2)
         ELSE IF line[k + 1] = "that"
              THEN IF k + 2 <= Len(line) /\ line[k + 2] = "can"
                   THEN ParseToAt(line, k + 3, to2)
                   ELSE Panic
         ELSE Panic

\* parse_to on the rest of the iterator.
ParseTo(line, k) == ParseToAt(line, k, {})

\* read_relation on one line (an empty sequence when stdin is exhausted).
ReadRelation(line) ==
    LET f == ParseFrom(line) IN
    IF ~f.ok THEN [ok |-> FALSE, rel |-> Relation({}, {})]
    ELSE LET t == ParseTo(line, f.pos) IN
         IF ~t.ok THEN [ok |-> FALSE, rel |-> Relation({}, {})]
         ELSE [ok |-> TRUE, rel |-> Relation(f.set, t.set)]

\* The line read_line yields for the i-th statement.
LineAt(in, i) == IF i <= Len(in.lines) THEN in.lines[i] ELSE <<>>

\* read_relations
ReadRelations(in) ==
    LET rd == [i \in 1..in.count |-> ReadRelation(LineAt(in, i))] IN
    [ok   |-> \A i \in 1..in.count : rd[i].ok,
     rels |-> [i \in 1..in.count |-> rd[i].rel]]

(***************************************************************************)
(* The double loops of can_fly                                             *)
(***************************************************************************)
\* Every (relation_a, relation_b) the nested `for` loops go through.
AllPairs(n) == (1..n) \X (1..n)

\* The pair the nested loops reach first among those left: a outer, b inner.
NextPair(ps) ==
    CHOOSE p \in ps : \A q \in ps : p[1] < q[1] \/ (p[1] = q[1] /\ p[2] <= q[2])

\* Faulty identity test: compares the relations' values.
SameValue(rs, a, b) == rs[a] = rs[b]

\* std::ptr::eq(relation_a, relation_b): the same element of the Vec.
SameRelation(rs, a, b) == a = b

\* Faulty phase 1 body: extends relation_a with relation_b.
MergeStepSwapped(rs, a, b) ==
    IF SameRelation(rs, a, b) THEN [rels |-> rs, set |-> FALSE, calls |-> {}]
    ELSE IF Matches(rs[a], rs[b])
         THEN LET e == Extend(rs[a], rs[b]) IN
              [rels  |-> [rs EXCEPT ![a] = e.rel],
               set   |-> e.grew,
               calls |-> {<<"matches", a, b>>, <<"extend", a, b>>}]
         ELSE [rels |-> rs, set |-> FALSE, calls |-> {<<"matches", a, b>>}]

\* Body of the phase 1 loop at (a, b): the Vec after it, whether `changed`
\* was set, and the methods it invoked as <<method, self, other>>.
MergeStep(rs, a, b) ==
    IF SameRelation(rs, a, b) THEN [rels |-> rs, set |-> FALSE, calls |-> {}]
    ELSE IF Matches(rs[a], rs[b])
         THEN LET e == Extend(rs[b], rs[a]) IN
              [rels  |-> [rs EXCEPT ![b] = e.rel],
               set   |-> e.grew,
               calls |-> {<<"matches", a, b>>, <<"extend", b, a>>}]
         ELSE [rels |-> rs, set |-> FALSE, calls |-> {<<"matches", a, b>>}]

\* Faulty phase 2 body: never sets `changed`.
CascadeStepSilent(rs, a, b) ==
    IF SameRelation(rs, a, b) THEN [rels |-> rs, set |-> FALSE, calls |-> {}]
    ELSE IF Cascades(rs[a], rs[b])
         THEN LET e == Extend(rs[a], rs[b]) IN
              [rels  |-> [rs EXCEPT ![a] = e.rel],
               set   |-> FALSE,
               calls |-> {<<"cascades", a, b>>, <<"extend", a, b>>}]
         ELSE [rels |-> rs, set |-> FALSE, calls |-> {<<"cascades", a, b>>}]

\* Body of the phase 2 loop at (a, b).
CascadeStep(rs, a, b) ==
    IF SameRelation(rs, a, b) THEN [rels |-> rs, set |-> FALSE, calls |-> {}]
    ELSE IF Cascades(rs[a], rs[b])
         THEN LET e == Extend(rs[a], rs[b]) IN
              [rels  |-> [rs EXCEPT ![a] = e.rel],
               set   |-> e.grew,
               calls |-> {<<"cascades", a, b>>, <<"extend", a, b>>}]
         ELSE [rels |-> rs, set |-> FALSE, calls |-> {<<"cascades", a, b>>}]

\* The `for relation in &relations` loop after a sweep.
AnyCanFly(rs, flag) == \E i \in 1..Len(rs) : RelCanFly(rs[i], flag)

\* Number of labels over all conclusion sets.
RECURSIVE TotalTo(_)
TotalTo(rs) ==
    IF rs = <<>> THEN 0 ELSE Cardinality(Head(rs).to) + TotalTo(Tail(rs))

\* Cap of the sweep counter (beyond any count the loop can reach).
SweepCap == 8 * MaxRel

(***************************************************************************)
(* main                                                                    *)
(***************************************************************************)
Init ==
    /\ input \in {[count |-> Len(ls), lines |-> ls] : ls \in Inputs}
    /\ pc = "load"
    /\ relations = <<>>
    /\ rels = <<>>
    /\ all = TRUE
    /\ changed = FALSE
    /\ pending = {}
    /\ calls = {}
    /\ sweeps = 0
    /\ sweepStart = <<>>
    /\ results = <<>>
    /\ output = <<>>

\* let relations = read_relations();
Load ==
    /\ pc = "load"
    /\ LET r == ReadRelations(input) IN
       IF r.ok THEN relations' = r.rels /\ pc' = "main"
               ELSE relations' = relations /\ pc' = "abort"
    /\ UNCHANGED <<input, rels, all, changed, pending, calls, sweeps,
                   sweepStart, results, output>>

\* Faulty entry: `let mut changed = false;`.
EnterUnchanged(rs, flag) ==
    /\ rels' = rs
    /\ all' = flag
    /\ changed' = FALSE
    /\ pending' = AllPairs(Len(rs))
    /\ calls' = {}
    /\ sweeps' = 0
    /\ sweepStart' = rs
    /\ pc' = "phase1"

\* Entry of can_fly(rs, flag): `let mut changed = true;` and the start of
\* the phase 1 loops.
Enter(rs, flag) ==
    /\ rels' = rs
    /\ all' = flag
    /\ changed' = TRUE
    /\ pending' = AllPairs(Len(rs))
    /\ calls' = {}
    /\ sweeps' = 0
    /\ sweepStart' = rs
    /\ pc' = "phase1"

\* Faulty verdict: the two positive lines are swapped.
VerdictSwapped(res) ==
    IF res[1] THEN "Some pigs can fly"
    ELSE IF res[2] THEN "All pigs can fly"
    ELSE "No pigs can fly"

\* The line main prints given the values the can_fly calls returned.
Verdict(res) ==
    IF res[1] THEN "All pigs can fly"
    ELSE IF res[2] THEN "Some pigs can fly"
    ELSE "No pigs can fly"

\* if can_fly(relations.clone(), true) { ...
MainAll ==
    /\ pc = "main" /\ results = <<>>
    /\ Enter(relations, TRUE)
    /\ UNCHANGED <<input, relations, results, output>>

\* Faulty second call: runs on the Vec the first query saturated.
MainSomeCached ==
    /\ pc = "main" /\ results = <<FALSE>>
    /\ Enter(rels, FALSE)
    /\ UNCHANGED <<input, relations, results, output>>

\* } else if can_fly(relations, false) { ...
MainSome ==
    /\ pc = "main" /\ results = <<FALSE>>
    /\ Enter(relations, FALSE)
    /\ UNCHANGED <<input, relations, results, output>>

\* println!(...)
MainPrint ==
    /\ pc = "main"
    /\ results # <<>> /\ results # <<FALSE>>
    /\ output' = Append(output, Verdict(results))
    /\ pc' = "done"
    /\ UNCHANGED <<input, relations, rels, all, changed, pending, calls,
                   sweeps, sweepStart, results>>

(***************************************************************************)
(* can_fly                                                                 *)
(***************************************************************************)
\* One iteration of the phase 1 inner loop, at pair p.
Phase1At(p) ==
    /\ pc = "phase1" /\ p \in pending
    /\ LET s == MergeStep(rels, p[1], p[2]) IN
       /\ rels' = s.rels
       /\ changed' = (changed \/ s.set)
       /\ calls' = calls \cup s.calls
       /\ pending' = pending \ {p}
    /\ UNCHANGED <<input, pc, relations, all, sweeps, sweepStart, results, output>>

\* The phase 1 loops advance in the Vec's order.
Phase1Step == pending # {} /\ Phase1At(NextPair(pending))

\* The phase 1 loops are over: on to `while changed`.
Phase1End ==
    /\ pc = "phase1" /\ pending = {}
    /\ pc' = "while"
    /\ UNCHANGED <<input, relations, rels, all, changed, pending, calls,
                   sweeps, sweepStart, results, output>>

\* Faulty loop: `if changed` for `while changed`, a single sweep.
WhileOnce ==
    /\ pc = "while"
    /\ IF changed /\ sweeps = 0
       THEN /\ changed' = FALSE
            /\ pending' = AllPairs(Len(rels))
            /\ calls' = {}
            /\ sweeps' = sweeps + 1
            /\ sweepStart' = rels
            /\ pc' = "phase2"
            /\ UNCHANGED results
       ELSE /\ results' = Append(results, FALSE)
            /\ pc' = "main"
            /\ UNCHANGED <<changed, pending, calls, sweeps, sweepStart>>
    /\ UNCHANGED <<input, relations, rels, all, output>>

\* `while changed {`: start a sweep, or leave the loop and return false.
While ==
    /\ pc = "while"
    /\ IF changed
       THEN /\ changed' = FALSE
            /\ pending' = AllPairs(Len(rels))
            /\ calls' = {}
            /\ sweeps' = IF sweeps < SweepCap THEN sweeps + 1 ELSE sweeps
            /\ sweepStart' = rels
            /\ pc' = "phase2"
            /\ UNCHANGED results
       ELSE /\ results' = Append(results, FALSE)
            /\ pc' = "main"
            /\ UNCHANGED <<changed, pending, calls, sweeps, sweepStart>>
    /\ UNCHANGED <<input, relations, rels, all, output>>

\* One iteration of the phase 2 inner loop, at pair p.
Phase2At(p) ==
    /\ pc = "phase2" /\ p \in pending
    /\ LET s == CascadeStep(rels, p[1], p[2]) IN
       /\ rels' = s.rels
       /\ changed' = (changed \/ s.set)
       /\ calls' = calls \cup s.calls
       /\ pending' = pending \ {p}
    /\ UNCHANGED <<input, pc, relations, all, sweeps, sweepStart, results, output>>

\* The phase 2 loops advance in the Vec's order.
Phase2Step == pending # {} /\ Phase2At(NextPair(pending))

\* Faulty check: only looked at after a sweep that changed something.
CheckIfChanged ==
    /\ pc = "phase2" /\ pending = {}
    /\ IF changed /\ AnyCanFly(rels, all)
       THEN results' = Append(results, TRUE) /\ pc' = "main"
       ELSE results' = results /\ pc' = "while"
    /\ UNCHANGED <<input, relations, rels, all, changed, pending, calls,
                   sweeps, sweepStart, output>>

\* The sweep is over: the can_fly loop over the relations.
Check ==
    /\ pc = "phase2" /\ pending = {}
    /\ IF AnyCanFly(rels, all)
       THEN results' = Append(results, TRUE) /\ pc' = "main"
       ELSE results' = results /\ pc' = "while"
    /\ UNCHANGED <<input, relations, rels, all, changed, pending, calls,
                   sweeps, sweepStart, output>>

Next ==
    \/ Load
    \/ MainAll
    \/ MainSome
    \/ MainPrint
    \/ Phase1Step
    \/ Phase1End
    \/ While
    \/ Phase2Step
    \/ Check

Spec == Init /\ [][Next]_vars

(***************************************************************************)
(* can_fly as a function of its arguments                                  *)
(***************************************************************************)
RECURSIVE Pass(_, _, _)
\* A double loop over the pairs ps in the Vec's order; phase is "merge" for
\* the phase 1 loops and "cascade" for a sweep.
Pass(phase, st, ps) ==
    IF ps = {} THEN st
    ELSE LET p == NextPair(ps)
             s == IF phase = "merge" THEN MergeStep(st.rels, p[1], p[2])
                                     ELSE CascadeStep(st.rels, p[1], p[2]) IN
         Pass(phase, [rels |-> s.rels, changed |-> st.changed \/ s.set], ps \ {p})

RECURSIVE WhileChanged(_, _, _, _)
\* The `while changed` loop: the value returned and the sweeps it took.
WhileChanged(rs, chg, flag, n) ==
    IF ~chg THEN [result |-> FALSE, sweeps |-> n]
    ELSE LET st == Pass("cascade", [rels |-> rs, changed |-> FALSE], AllPairs(Len(rs))) IN
         IF AnyCanFly(st.rels, flag) THEN [result |-> TRUE, sweeps |-> n + 1]
         ELSE WhileChanged(st.rels, st.changed, flag, n + 1)

\* can_fly(rs, flag), with the number of sweeps.
CanFlyRun(rs, flag) ==
    LET st == Pass("merge", [rels |-> rs, changed |-> TRUE], AllPairs(Len(rs))) IN
    WhileChanged(st.rels, st.changed, flag, 0)

\* can_fly(rs, flag)
CanFly(rs, flag) == CanFlyRun(rs, flag).result

(***************************************************************************)
(* The program with the pairs of each double loop taken in any order       *)
(***************************************************************************)
\* Largest statement count drawn when the pair order is free.
OrderRel == 3

OrderLines ==
    << <<"PIGS", "have", "WINGS">>,
       <<"WINGS", "are", "things">>,
       <<"things", "with", "WINGS", "can", "FLY">>,
       <<"WINGS", "have", "PIGS">> >>

\* One input per collection of lines: with the pair order free, the order
\* of the Vec only names the relations.
OrderInputs ==
    UNION { { [i \in 1..n |-> OrderLines[f[i]]] :
                f \in {g \in [1..n -> 1..Len(OrderLines)] :
                          \A i, j \in 1..n : i <= j => g[i] <= g[j]} } :
            n \in 1..OrderRel }

OrderInit ==
    /\ input \in {[count |-> Len(ls), lines |-> ls] : ls \in OrderInputs}
    /\ pc = "load"
    /\ relations = <<>>
    /\ rels = <<>>
    /\ all = TRUE
    /\ changed = FALSE
    /\ pending = {}
    /\ calls = {}
    /\ sweeps = 0
    /\ sweepStart = <<>>
    /\ results = <<>>
    /\ output = <<>>

\* The pairs a double loop may take next: any pair of distinct relations
\* left; the pairs (i, i), which the loops skip, once no other is left.
Eligible ==
    IF \E p \in pending : p[1] # p[2] THEN {p \in pending : p[1] # p[2]}
    ELSE pending

Phase1Any == \E p \in Eligible : Phase1At(p)

Phase2Any == \E p \in Eligible : Phase2At(p)

OrderNext ==
    \/ Load
    \/ MainAll
    \/ MainSome
    \/ MainPrint
    \/ Phase1Any
    \/ Phase1End
    \/ While
    \/ Phase2Any
    \/ Check

SpecOrder == OrderInit /\ [][OrderNext]_vars

\* The program runs to its end: nothing but its own steps can stop it.
FairSpec == Init /\ [][Next]_vars /\ WF_vars(Next)

(***************************************************************************)
(* The program on statements whose premise sets are nested                 *)
(***************************************************************************)
ClosureLines ==
    { <<"PIGS", "have", "WINGS">>,
      <<"PIGS", "with", "HOOVES", "have", "CLAWS">>,
      <<"WINGS", "have", "TAILS">>,
      <<"TAILS", "can", "FLY">> }

ClosureInputs == UNION { [1..n -> ClosureLines] : n \in 1..MaxRel }

ClosureInit ==
    /\ input \in {[count |-> Len(ls), lines |-> ls] : ls \in ClosureInputs}
    /\ pc = "load"
    /\ relations = <<>>
    /\ rels = <<>>
    /\ all = TRUE
    /\ changed = FALSE
    /\ pending = {}
    /\ calls = {}
    /\ sweeps = 0
    /\ sweepStart = <<>>
    /\ results = <<>>
    /\ output = <<>>

SpecClosure == ClosureInit /\ [][Next]_vars

(***************************************************************************)
(* Properties                                                              *)
(***************************************************************************)
InQuery == pc \in {"phase1", "while", "phase2"}

\* C1: main prints exactly one verdict line, chosen by the values the
\* queries returned: "All pigs can fly" if the all=true query returned true,
\* else "Some pigs can fly" if the all=false query returned true, else
\* "No pigs can fly"; the all=false query runs only after the all=true query
\* returned false.
C1_Verdict ==
    /\ pc # "done" => output = <<>>
    /\ pc = "done" =>
          /\ Len(output) = 1
          /\ results \in {<<TRUE>>, <<FALSE, TRUE>>, <<FALSE, FALSE>>}
          /\ results = <<TRUE>> => output[1] = "All pigs can fly"
          /\ results = <<FALSE, TRUE>> => output[1] = "Some pigs can fly"
          /\ results = <<FALSE, FALSE>> => output[1] = "No pigs can fly"
    /\ (InQuery /\ ~all) => results = <<FALSE>>
    /\ (InQuery /\ all) => results = <<>>

C1_Witness ==
    pc = "done" /\ results = <<FALSE, TRUE>> /\ output = <<"Some pigs can fly">>

\* C2 as stated: on scenario 1 the first relation absorbs "FLY" and the
\* program prints "All pigs can fly".
C2_Original ==
    (input.lines = Scenario1 /\ pc = "done") =>
        ("FLY" \in rels[1].to /\ output = <<"All pigs can fly">>)

\* C2 amended: on scenario 1 the second relation is loaded with the premise
\* set {"things", "WINGS"}, so the cascade rule never fires, the first
\* relation's conclusion set stays {"WINGS"}, and the program prints
\* "No pigs can fly".
C2_Scenario1 ==
    input.lines = Scenario1 =>
        /\ pc # "abort"
        /\ pc # "load" =>
              relations = << Relation({"PIGS"}, {"WINGS"}),
                             Relation({"things", "WINGS"}, {"FLY"}) >>
        /\ rels # <<>> => rels = relations
        /\ \A c \in calls : c[1] # "extend"
        /\ pc = "done" => output = <<"No pigs can fly">>

C2_Witness ==
    input.lines = Scenario1 /\ pc = "done" /\ results = <<FALSE, FALSE>>

\* The verdict one relation decides on its own.
SingleVerdict(r) ==
    IF "PIGS" \in r.from /\ "FLY" \in r.to THEN "All pigs can fly"
    ELSE IF {"PIGS", "FLY"} \subseteq r.to THEN "Some pigs can fly"
    ELSE "No pigs can fly"

\* C3: with a single relation, saturation derives nothing (the conclusion
\* set stays as loaded) and the verdict is decided by that relation alone.
C3_Single ==
    /\ Len(relations) = 1 =>
          /\ rels # <<>> => rels = relations
          /\ pc = "done" => output = <<SingleVerdict(relations[1])>>
    /\ (input.lines = << <<"things", "with", "HOOVES", "are", "PIGS", "with", "FLY">> >>
          /\ pc = "done") => output = <<"Some pigs can fly">>
    /\ (input.lines = << <<"CATS", "have", "CLAWS">> >> /\ pc = "done")
          => output = <<"No pigs can fly">>

C3_Witness ==
    /\ input.lines = << <<"things", "with", "HOOVES", "are", "PIGS", "with", "FLY">> >>
    /\ pc = "done"
    /\ rels = relations
    /\ output = <<"Some pigs can fly">>

\* C4: Relation::can_fly(r, all) is true exactly when ("PIGS" in r.from and
\* "FLY" in r.to) or (all is false and r.to has both "PIGS" and "FLY");
\* hence can_fly(r, true) implies can_fly(r, false).
C4_CanFly ==
    /\ \A i \in 1..Len(rels) : \A flag \in BOOLEAN :
          /\ RelCanFly(rels[i], flag) <=>
                \/ ("PIGS" \in rels[i].from /\ "FLY" \in rels[i].to)
                \/ (flag = FALSE /\ {"PIGS", "FLY"} \subseteq rels[i].to)
          /\ RelCanFly(rels[i], TRUE) => RelCanFly(rels[i], FALSE)
    /\ RelCanFly(Relation({"PIGS"}, {"FLY"}), TRUE)
    /\ RelCanFly(Relation({"PIGS"}, {"FLY"}), FALSE)
    /\ ~RelCanFly(Relation({"BIRDS"}, {"PIGS", "FLY"}), TRUE)
    /\ RelCanFly(Relation({"BIRDS"}, {"PIGS", "FLY"}), FALSE)

C4_Witness ==
    /\ pc = "main" /\ results = <<FALSE, TRUE>>
    /\ \E i \in 1..Len(rels) :
          RelCanFly(rels[i], FALSE) /\ ~RelCanFly(rels[i], TRUE)
    /\ \E i \in 1..Len(rels) : "PIGS" \in rels[i].from /\ "FLY" \notin rels[i].to

\* C5: within a saturation run no step removes a label from any conclusion
\* set: each relation's `to` after a step includes its `to` before it.
C5_Monotone ==
    [][InQuery =>
          /\ Len(rels') = Len(rels)
          /\ \A i \in 1..Len(rels) : rels[i].to \subseteq rels'[i].to]_vars

C5_Witness ==
    /\ InQuery
    /\ \E i \in 1..Len(rels) :
          /\ sweepStart[i].to # rels[i].to
          /\ relations[i].to # sweepStart[i].to

\* C6: a step that invokes extend(target, source) sets target.to to
\* target.to \cup source.to, changes no other relation, reports a change iff
\* target.to strictly grew, and extend invoked again right after changes
\* nothing and returns false.
C6_Extend ==
    [][\A c \in calls' \ calls : c[1] = "extend" =>
          LET t == c[2]
              s == c[3]
              again == Extend(rels'[t], rels'[s]) IN
          /\ rels'[t].to = rels[t].to \cup rels[s].to
          /\ rels'[t].from = rels[t].from
          /\ \A k \in 1..Len(rels) : k # t => rels'[k] = rels[k]
          /\ changed' = (changed \/ \E l \in rels[s].to : l \notin rels[t].to)
          /\ again.rel = rels'[t]
          /\ again.grew = FALSE]_vars

C6_Witness ==
    /\ pc = "phase2" /\ changed
    /\ \E c \in calls : c[1] = "extend" /\ rels[c[2]].to # sweepStart[c[2]].to
    /\ \E c \in calls : c[1] = "extend" /\ rels[c[2]].to = sweepStart[c[2]].to

\* The pairs on which a double loop has called matches / cascades so far.
Tested == {<<c[2], c[3]>> : c \in {d \in calls : d[1] \in {"matches", "cascades"}}}

\* C7: no Relation method is ever invoked with the same relation in both
\* arguments, and of the pairs a double loop has gone through exactly the
\* pairs (i, i) were skipped.
C7_SelfExclusion ==
    /\ \A c \in calls : c[2] # c[3]
    /\ pc \in {"phase1", "phase2"} =>
          Tested = {p \in AllPairs(Len(rels)) \ pending : p[1] # p[2]}

C7_Witness ==
    /\ pc = "phase2" /\ pending = {} /\ sweeps > 1
    /\ \E i, j \in 1..Len(rels) : i # j /\ rels[i] = rels[j]

\* A sweep that set `changed` added a label to some conclusion set.
SweepProgress ==
    (pc = "while" /\ sweeps > 0 /\ changed) => TotalTo(rels) > TotalTo(sweepStart)

\* C8: the program always runs to its end, so each saturation query
\* returns; and every sweep after which the loop goes on has strictly
\* increased the number of labels over all conclusion sets.
C8_Termination == <>(pc \in {"done", "abort"}) /\ []SweepProgress

C8_Witness ==
    pc = "main" /\ results = <<FALSE>> /\ sweeps >= 3 /\ rels # relations

\* Labels occurring in the loaded relations.
LabelsOf(rs) == UNION {rs[i].from \cup rs[i].to : i \in 1..Len(rs)}

\* C9: a saturation query runs at most (number of distinct labels) x
\* (number of relations) sweeps.
C9_SweepBound ==
    pc # "load" => sweeps <= Cardinality(LabelsOf(relations)) * Len(relations)

\* The Vecs holding the relations of rs in another order.
Reorderings(rs) ==
    {[i \in 1..Len(rs) |-> rs[f[i]]] :
        f \in {g \in [1..Len(rs) -> 1..Len(rs)] :
                  \A i, j \in 1..Len(rs) : g[i] = g[j] => i = j}}

\* C10: whatever the order in which a double loop takes the pairs, each
\* saturation query returns what it returns in the Vec's order, and what it
\* returns for the same relations held in any other order.
C10_OrderIndependent ==
    pc = "main" =>
        \A k \in 1..Len(results) :
            /\ results[k] = CanFly(relations, k = 1)
            /\ \A rs \in Reorderings(relations) : CanFly(rs, k = 1) = results[k]

C10_Witness ==
    /\ pc = "main" /\ results = <<TRUE>>
    /\ sweeps > CanFlyRun(relations, TRUE).sweeps

\* main's Vec is the one read_relations returned.
AsLoaded == relations = ReadRelations(input).rels

\* C11 as stated: the all=false query adds no label to any conclusion set.
C11_Original ==
    [][(InQuery /\ ~all) => rels' = rels]_vars

\* C11 amended: the all=false query operates on the conclusion sets as
\* loaded, not on sets grown by the all=true query (which worked on a clone,
\* main's collection never being modified); it goes through its own phase 1
\* pass over all pairs and at least one sweep of its own before it returns,
\* and may add labels to conclusion sets.
C11_SecondQueryFresh ==
    /\ pc \notin {"load", "abort"} => AsLoaded
    /\ (pc = "phase1" /\ pending = AllPairs(Len(rels))) => rels = relations
    /\ (InQuery /\ ~all /\ pc = "while" /\ sweeps = 0) =>
          Tested = {q \in AllPairs(Len(rels)) : q[1] # q[2]}
    /\ (pc \in {"main", "done"} /\ Len(results) = 2) => (~all /\ sweeps >= 1)

C11_Witness ==
    /\ InQuery /\ ~all /\ AsLoaded
    /\ \E i \in 1..Len(rels) : rels[i].to # relations[i].to

(***************************************************************************)
(* The statement grammar                                                   *)
(***************************************************************************)
Connectors == {"are", "have", "can"}

Keywords == Connectors \cup {"with", "and", "that"}

RECURSIVE IsGroup(_)
\* A label group: a label, or a label, a joiner ("with", "and", "that can")
\* and a label group.
IsGroup(ts) ==
    /\ ts # <<>>
    /\ ts[1] \notin Keywords
    /\ \/ Len(ts) = 1
       \/ Len(ts) >= 3 /\ ts[2] \in {"with", "and"} /\ IsGroup(SubSeq(ts, 3, Len(ts)))
       \/ Len(ts) >= 4 /\ ts[2] = "that" /\ ts[3] = "can"
             /\ IsGroup(SubSeq(ts, 4, Len(ts)))

\* A premise group, a connector, a conclusion group.
WellFormed(line) ==
    \E c \in 1..Len(line) :
        /\ line[c] \in Connectors
        /\ IsGroup(SubSeq(line, 1, c - 1))
        /\ IsGroup(SubSeq(line, c + 1, Len(line)))

\* C12: a statement line that is not a premise group, a connector and a
\* conclusion group aborts the run, and no verdict is printed.
C12_MalformedAborts ==
    (\E i \in 1..input.count : ~WellFormed(LineAt(input, i)))
        => (pc \in {"load", "abort"} /\ output = <<>>)

(***************************************************************************)
(* Saturation without early exit                                           *)
(***************************************************************************)
RECURSIVE CascadeFix(_)
\* Sweeps repeated until one changes nothing.
CascadeFix(rs) ==
    LET st == Pass("cascade", [rels |-> rs, changed |-> FALSE], AllPairs(Len(rs))) IN
    IF st.changed THEN CascadeFix(st.rels) ELSE st.rels

\* Phase 1 once, then phase 2 to its fixpoint.
Saturated(rs) ==
    CascadeFix(Pass("merge", [rels |-> rs, changed |-> TRUE], AllPairs(Len(rs))).rels)

\* rs is closed under the cascade rule.
CascadeClosed(rs) ==
    \A a, b \in 1..Len(rs) :
        (a # b /\ rs[b].from \subseteq rs[a].to) => rs[b].to \subseteq rs[a].to

\* C13: each query returns true iff some relation of the fully saturated
\* collection satisfies the terminal predicate, and the verdict is the one
\* both predicates give on that one saturated collection.
C13_EarlyExit ==
    /\ pc \in {"main", "done"} =>
          \A k \in 1..Len(results) :
              results[k] = AnyCanFly(Saturated(relations), k = 1)
    /\ pc = "done" =>
          output = << Verdict(<< AnyCanFly(Saturated(relations), TRUE),
                                AnyCanFly(Saturated(relations), FALSE) >>) >>

C13_Witness ==
    /\ pc = "main" /\ results = <<TRUE>>
    /\ changed
    /\ ~CascadeClosed(rels)

\* The query that last returned returned false.
ReturnedFalse ==
    /\ pc \in {"main", "done"}
    /\ Len(results) = (IF all THEN 1 ELSE 2)
    /\ results[Len(results)] = FALSE

\* C14: a query returns false only when its last sweep changed no
\* conclusion set, the collection is closed under the cascade rule, and no
\* relation satisfies the terminal predicate.
C14_FalseAtFixpoint ==
    ReturnedFalse =>
        /\ sweeps >= 1
        /\ rels = sweepStart
        /\ CascadeClosed(rels)
        /\ ~AnyCanFly(rels, all)

C14_Witness ==
    ReturnedFalse /\ sweeps >= 2 /\ rels # relations

\* The pair a step of a double loop has just gone through.
Visited == CHOOSE p \in pending : p \notin pending'

\* The pairs of distinct relations.
Distinct(n) == {p \in AllPairs(n) : p[1] # p[2]}

\* C15: the premise-subset merge (extend(b, a) for each a # b with
\* a.from within b.from) runs as one pass over all pairs, entered only at
\* the start of a query and completed before the first sweep; no sweep
\* invokes matches; and no query returns before at least one sweep.
C15_PhaseOrder ==
    /\ [](pc = "phase1" => sweeps = 0 /\ \A c \in calls : c[1] # "cascades")
    /\ [](pc = "phase2" => sweeps >= 1 /\ \A c \in calls : c[1] # "matches")
    /\ []((pc = "while" /\ sweeps = 0) => changed)
    /\ [][(pc = "phase1" /\ pending' # pending) =>
            LET a == Visited[1]
                b == Visited[2] IN
            IF a # b /\ rels[a].from \subseteq rels[b].from
            THEN rels' = [rels EXCEPT ![b].to = @ \cup rels[a].to]
            ELSE rels' = rels]_vars
    /\ [][(pc = "phase1" /\ pc' # "phase1") =>
            (pc' = "while" /\ pending = {} /\ Tested = Distinct(Len(rels)))]_vars
    /\ [][(pc' = "phase1" /\ pc # "phase1") => pc = "main"]_vars
    /\ [][(InQuery /\ pc' = "main") => sweeps >= 1]_vars

C15_Witness ==
    /\ pc = "phase2" /\ sweeps >= 2
    /\ Pass("merge", [rels |-> relations, changed |-> TRUE],
            AllPairs(Len(relations))).rels # relations
    /\ Pass("merge", [rels |-> rels, changed |-> TRUE], AllPairs(Len(rels))).rels = rels

\* C16: the terminal predicate decides only at the end of a completed
\* sweep: a sweep under way always goes on to its last pair, a query
\* returns true only from the end of a sweep where some relation satisfies
\* the predicate, and at the end of every sweep (the first one, and one that
\* changed nothing, included) it returns true at once if some relation
\* satisfies the predicate and goes back to the loop test otherwise.
C16_CheckPerSweep ==
    /\ [][(pc = "phase2" /\ pending # {}) =>
            (pc' = "phase2" /\ results' = results)]_vars
    /\ [][(pc = "phase2" /\ pending = {}) =>
            IF \E i \in 1..Len(rels) : RelCanFly(rels[i], all)
            THEN pc' = "main" /\ results' = Append(results, TRUE)
            ELSE pc' = "while" /\ results' = results]_vars
    /\ [][(InQuery /\ results' # results /\ results'[Len(results')]) =>
            (pc = "phase2" /\ pending = {} /\ sweeps >= 1)]_vars
    /\ [][pc = "phase1" => results' = results]_vars

C16_Witness ==
    /\ pc = "main" /\ results = <<FALSE, TRUE>>
    /\ sweeps = 1 /\ ~changed /\ rels = sweepStart

\* C17: a step of a sweep at a pair a # b unions b's current conclusions
\* into a.to exactly when b.from is within a's current conclusion set, and
\* changes nothing else.
C17_Cascade ==
    [][(pc = "phase2" /\ pending' # pending) =>
          LET a == Visited[1]
              b == Visited[2] IN
          /\ a # b => (<<"cascades", a, b>> \in calls'
                       /\ (<<"extend", a, b>> \in calls'
                             <=> rels[b].from \subseteq rels[a].to))
          /\ IF a # b /\ rels[b].from \subseteq rels[a].to
             THEN rels' = [rels EXCEPT ![a].to = @ \cup rels[b].to]
             ELSE rels' = rels]_vars

C17_Witness ==
    /\ pc = "phase2"
    /\ \E c \in calls :
          /\ c[1] = "extend"
          /\ ~(rels[c[3]].from \subseteq sweepStart[c[2]].to)
          /\ rels[c[3]].to # sweepStart[c[3]].to

\* rs is closed under the premise-subset rule.
MergeClosed(rs) ==
    \A a, b \in 1..Len(rs) :
        rs[a].from \subseteq rs[b].from => rs[a].to \subseteq rs[b].to

\* C18: after phase 1 each relation's conclusion set is the union of the
\* loaded conclusion sets of the relations whose premise set is within its
\* own; the collection is closed under the premise-subset rule, and a
\* second phase 1 pass would change nothing.
C18_MergeClosure ==
    (pc = "while" /\ sweeps = 0) =>
        /\ \A b \in 1..Len(rels) :
              rels[b].to = UNION {relations[a].to :
                                    a \in {x \in 1..Len(rels) :
                                             relations[x].from \subseteq relations[b].from}}
        /\ MergeClosed(rels)
        /\ Pass("merge", [rels |-> rels, changed |-> FALSE],
                AllPairs(Len(rels))) = [rels |-> rels, changed |-> FALSE]

C18_Witness ==
    /\ pc = "while" /\ sweeps = 0
    /\ \E a, b \in 1..Len(rels) :
          /\ a > b
          /\ relations[a].from \subseteq relations[b].from
          /\ relations[a].from # relations[b].from
          /\ ~(relations[a].to \subseteq relations[b].to)

\* C19: when a query returns false the collection is also closed under the
\* premise-subset rule: another phase 1 pass would add no label.
C19_MergeClosedAtEnd ==
    ReturnedFalse =>
        /\ MergeClosed(rels)
        /\ Pass("merge", [rels |-> rels, changed |-> FALSE],
                AllPairs(Len(rels))) = [rels |-> rels, changed |-> FALSE]

C19_Witness ==
    /\ ReturnedFalse
    /\ \E a, b \in 1..Len(rels) :
          /\ rels[a].from \subseteq rels[b].from
          /\ rels[a].from # rels[b].from
          /\ ~(rels[a].to \subseteq
                  Pass("merge", [rels |-> relations, changed |-> TRUE],
                       AllPairs(Len(relations))).rels[b].to)

\* Labels of the loaded conclusion sets.
LoadedTo == UNION {relations[i].to : i \in 1..Len(relations)}

\* C20: saturation keeps the number and order of the relations and their
\* premise sets, and puts in a conclusion set only labels of the loaded
\* conclusion sets; with "FLY" in no loaded conclusion set the verdict is
\* "No pigs can fly".
C20_Frame ==
    /\ pc \notin {"load", "abort"} => AsLoaded
    /\ rels # <<>> =>
          /\ Len(rels) = Len(relations)
          /\ \A i \in 1..Len(rels) :
                /\ rels[i].from = relations[i].from
                /\ rels[i].to \subseteq LoadedTo
    /\ (pc = "done" /\ "FLY" \notin LoadedTo) => output = <<"No pigs can fly">>

C20_Witness ==
    /\ pc = "done" /\ "FLY" \notin LoadedTo
    /\ output = <<"No pigs can fly">>
    /\ \E i \in 1..Len(rels) : rels[i].to # relations[i].to
====
